---- MODULE Spec2Model ----
(***************************************************************************)
(* A model of src/src/App.jsx (Monitoramento Legislativo): the code        *)
(* parser, the week-start helper, the colour hash, the aggregator effect   *)
(* and the batch handler handleProcessPropositions with the React state    *)
(* it writes.                                                              *)
(*                                                                         *)
(* JavaScript strings are sequences of one-character strings.  A Date is   *)
(* a number of whole hours since 1970-01-01T00:00Z, a calendar date a      *)
(* number of days since 1970-01-01, a time zone a whole number of hours    *)
(* east of UTC.                                                            *)
(***************************************************************************)
EXTENDS Integers, Sequences, FiniteSets, TLC

VARIABLES
    propositionCodesInput,   \* useState(''): the text of the textarea
    selectedPropositions,    \* useState([]): the live proposition list
    latestMovements,         \* useState([])
    propositionsByChanges,   \* useState([])
    currentStatusData,       \* useState([])
    errorMessage,            \* useState('')
    isLoading,               \* useState(false)
    weeklyMovementData,      \* useState([])
    effectPending,           \* the aggregator effect is scheduled and has not run
    runs,                    \* the activations of handleProcessPropositions
    requests,                \* the fetch() calls in flight
    outcomes,                \* history: per activation, what became of each code
    installs,                \* history: per activation, executions of line 277
    submitted,               \* history: the button has been clicked
    timeZone,                \* the machine's local time zone
    callArg,                 \* argument of a call of a pure helper
    callRet                  \* what the call returned

vars == <<propositionCodesInput, selectedPropositions, latestMovements,
          propositionsByChanges, currentStatusData, errorMessage, isLoading,
          weeklyMovementData, effectPending, runs, requests, outcomes,
          installs, submitted, timeZone, callArg, callRet>>

reactState == <<propositionCodesInput, selectedPropositions, latestMovements,
                propositionsByChanges, currentStatusData, errorMessage,
                isLoading, weeklyMovementData, effectPending>>

batchState == <<runs, requests, outcomes, installs>>

callState == <<callArg, callRet>>

(***************************************************************************)
(* Characters                                                              *)
(***************************************************************************)
UpperLetters == <<"A","B","C","D","E","F","G","H","I","J","K","L","M",
                  "N","O","P","Q","R","S","T","U","V","W","X","Y","Z">>

LowerLetters == <<"a","b","c","d","e","f","g","h","i","j","k","l","m",
                  "n","o","p","q","r","s","t","u","v","w","x","y","z">>

DigitChars == <<"0","1","2","3","4","5","6","7","8","9">>

HexChars == <<"0","1","2","3","4","5","6","7","8","9","a","b","c","d","e","f">>

Range(s) == {s[i] : i \in 1..Len(s)}

\* F of x, with x evaluated once and for all
With(x, F(_)) == CHOOSE r \in {F(v) : v \in {x}} : TRUE

\* a sequence given by a rule, with every element worked out
Tuple(s) == <<>> \o s

\* a function given by a rule, with every value worked out
Table(f) == f @@ <<>>

IndexOf(c, s) == CHOOSE i \in 1..Len(s) : s[i] = c

IsUpper(c) == c \in Range(UpperLetters)

IsLower(c) == c \in Range(LowerLetters)

\* [A-Z] under the i flag: the ASCII letters of either case
IsLetter(c) == IsUpper(c) \/ IsLower(c)

IsDigit(c) == c \in Range(DigitChars)

\* \s, and what trim() strips
Spaces == {" "}

IsSpace(c) == c \in Spaces

Letters == Range(UpperLetters) \cup Range(LowerLetters)

\* String.prototype.toUpperCase on one character
ToUpperChar(c) == IF IsLower(c) THEN UpperLetters[IndexOf(c, LowerLetters)] ELSE c

\* String.prototype.charCodeAt: the UTF-16 code unit
CharCode(c) ==
    IF IsUpper(c) THEN 64 + IndexOf(c, UpperLetters)
    ELSE IF IsLower(c) THEN 96 + IndexOf(c, LowerLetters)
    ELSE IF IsDigit(c) THEN 47 + IndexOf(c, DigitChars)
    ELSE IF c = "/" THEN 47
    ELSE IF c = "," THEN 44
    ELSE 32

(***************************************************************************)
(* parsePropositionCode                                                    *)
(***************************************************************************)
\* the first index >= i of s whose character is not in class (Len(s)+1 if none)
RECURSIVE RunEnd(_, _, _)
RunEnd(s, i, class) ==
    IF i <= Len(s) /\ s[i] \in class THEN RunEnd(s, i + 1, class) ELSE i

\* parseInt(digits, 10) on a string of decimal digits
RECURSIVE ParseIntUpTo(_, _)
ParseIntUpTo(ds, n) ==
    IF n = 0 THEN 0
    ELSE 10 * ParseIntUpTo(ds, n - 1) + (IndexOf(ds[n], DigitChars) - 1)

ParseInt(ds) == ParseIntUpTo(ds, Len(ds))

\* the siglaTipo of a match: parts[1].toUpperCase()
ToUpperCase(s) == [i \in 1..Len(s) |-> ToUpperChar(s[i])]

\* the positions of /([A-Z]+)\s*(\d+)\/(\d{4})/i tried at start i.  The three
\* classes are disjoint, so each greedy run is the only one that can match.
MatchAt(s, i) ==
    With(RunEnd(s, i, Letters), LAMBDA j :
    With(RunEnd(s, j, Spaces), LAMBDA k :
    With(RunEnd(s, k, Range(DigitChars)), LAMBDA l :
        [ok |-> /\ j > i
                /\ l > k
                /\ l + 4 <= Len(s)
                /\ s[l] = "/"
                /\ \A t \in (l + 1)..(l + 4) : IsDigit(s[t]),
         j |-> j, k |-> k, l |-> l])))

NullParse == [matched |-> FALSE, siglaTipo |-> <<>>, numero |-> 0, ano |-> 0]

\* a parser that forgets toUpperCase()
SiglaKeptAsTyped(letters) == letters

SiglaOf(letters) == ToUpperCase(letters)

\* code.match(...): the leftmost start at which the pattern matches
parsePropositionCode(code) ==
    With({i \in 1..Len(code) : MatchAt(code, i).ok}, LAMBDA starts :
        IF starts = {} THEN NullParse
        ELSE With(CHOOSE x \in starts : \A y \in starts : x <= y, LAMBDA i :
             With(MatchAt(code, i), LAMBDA m :
                 [matched   |-> TRUE,
                  siglaTipo |-> SiglaOf(SubSeq(code, i, m.j - 1)),
                  numero    |-> ParseInt(Tuple(SubSeq(code, m.k, m.l - 1))),
                  ano       |-> ParseInt(Tuple(SubSeq(code, m.l + 1, m.l + 4)))])))

(***************************************************************************)
(* getPropositionColor                                                     *)
(*                                                                         *)
(* A Number holding an integer v is the pair hi, lo with                   *)
(* v = hi * 65536 + lo and 0 <= lo < 65536 (hi carries the sign), so that  *)
(* no intermediate value needs more than 32 bits.                          *)
(***************************************************************************)
Half == 256 * 256

Normalize(hi, lo) == [hi |-> hi + (lo \div Half), lo |-> lo % Half]

\* ToInt32: the low 32 bits, read as two's complement
ToInt32(n) ==
    LET h == n.hi % Half
    IN  [hi |-> IF 2 * h >= Half THEN h - Half ELSE h, lo |-> n.lo]

\* hash << 5: ToInt32 of the operand, five bits to the left, ToInt32 again
ShiftLeft5(n) ==
    With(ToInt32(n), LAMBDA x :
        ToInt32([hi |-> (x.hi % Half) * 32 + ((x.lo * 32) \div Half),
                 lo |-> (x.lo * 32) % Half]))

\* a - b and c + a on Numbers: exact, no wrap
Minus(a, b) == Normalize(a.hi - b.hi, a.lo - b.lo)

Plus(c, a) == Normalize(a.hi, a.lo + c)

\* one turn of the loop: hash = code.charCodeAt(i) + ((hash << 5) - hash)
HashStep(hash, c) == Plus(CharCode(c), Minus(ShiftLeft5(hash), hash))

\* hash after the first n characters
RECURSIVE HashUpTo(_, _)
HashUpTo(code, n) ==
    IF n = 0 THEN [hi |-> 0, lo |-> 0]
    ELSE With(HashUpTo(code, n - 1), LAMBDA hash : HashStep(hash, code[n]))

HashOf(code) == HashUpTo(code, Len(code))

\* (hash >> (i * 8)) & 0xFF for i = 0, 1, 2
ByteOf(hash, i) ==
    LET x == ToInt32(hash)
    IN  IF i = 0 THEN x.lo % 256
        ELSE IF i = 1 THEN (x.lo \div 256) % 256
        ELSE x.hi % 256

\* Number.prototype.toString(16) of a value in 0..255: no leading zero
ToString16(value) ==
    IF value < 16 THEN <<HexChars[value + 1]>>
    ELSE <<HexChars[(value \div 16) + 1], HexChars[(value % 16) + 1]>>

\* a colour whose bytes are not padded to two digits
HexByteUnpadded(value) == ToString16(value)

\* ('00' + value.toString(16)).substr(-2)
HexByte(value) ==
    With(<<"0", "0">> \o ToString16(value), LAMBDA padded :
        SubSeq(padded, Len(padded) - 1, Len(padded)))

getPropositionColor(code) ==
    With(HashOf(code), LAMBDA hash :
        <<"#">> \o HexByte(ByteOf(hash, 0)) \o HexByte(ByteOf(hash, 1))
                \o HexByte(ByteOf(hash, 2)))

(***************************************************************************)
(* Dates.  A timestamp string (dataHora) is the record                     *)
(*   [date |-> days since 1970-01-01 of the date it spells,                *)
(*    hasTime |-> whether a "T" and a time of day follow, hour |-> it].    *)
(* The API's strings carry no zone designator.                             *)
(***************************************************************************)
\* the civil date of a day number (proleptic Gregorian)
CivilFromDays(days) ==
    With(days + 719468, LAMBDA z :
    With(z \div 146097, LAMBDA era :
    With(z - era * 146097, LAMBDA doe :
    With((doe - (doe \div 1460) + (doe \div 36524) - (doe \div 146096)) \div 365,
         LAMBDA yoe :
    With(doe - (365 * yoe + (yoe \div 4) - (yoe \div 100)), LAMBDA doy :
    With((5 * doy + 2) \div 153, LAMBDA mp :
    With(IF mp < 10 THEN mp + 3 ELSE mp - 9, LAMBDA m :
        [y |-> yoe + era * 400 + (IF m <= 2 THEN 1 ELSE 0),
         m |-> m,
         d |-> doy - ((153 * mp + 2) \div 5) + 1])))))))

\* the day number of a civil date
DaysFromCivil(c) ==
    With(IF c.m <= 2 THEN c.y - 1 ELSE c.y, LAMBDA y :
    With(y \div 400, LAMBDA era :
    With(IF c.m > 2 THEN c.m - 3 ELSE c.m + 9, LAMBDA mp :
    With(y - era * 400, LAMBDA yoe :
        era * 146097 + yoe * 365 + (yoe \div 4) - (yoe \div 100)
            + ((153 * mp + 2) \div 5) + c.d - 1 - 719468))))

\* n in decimal, padded with zeros to width w
RECURSIVE Pad(_, _)
Pad(n, w) ==
    IF w = 0 THEN <<>> ELSE Append(Pad(n \div 10, w - 1), DigitChars[(n % 10) + 1])

\* "YYYY-MM-DD"
FormatDate(days) ==
    With(CivilFromDays(days), LAMBDA c :
        Pad(c.y, 4) \o <<"-">> \o Pad(c.m, 2) \o <<"-">> \o Pad(c.d, 2))

\* new Date("YYYY-MM-DD"): a date-only string is UTC midnight
ParseDateOnly(str) ==
    With([y |-> ParseInt(Tuple(SubSeq(str, 1, 4))),
          m |-> ParseInt(Tuple(SubSeq(str, 6, 7))),
          d |-> ParseInt(Tuple(SubSeq(str, 9, 10)))],
         LAMBDA c : 24 * DaysFromCivil(c))

\* new Date(dateString): a date-time without a zone designator is local time,
\* a date-only string is UTC
NewDate(dateString, tz) ==
    IF dateString.hasTime
    THEN 24 * dateString.date + dateString.hour - tz
    ELSE With(FormatDate(dateString.date), LAMBDA str : ParseDateOnly(str))

\* dataHora.split('T')[0]
DateOnly(dateString) == FormatDate(dateString.date)

\* the local calendar fields of an instant
LocalDay(t, tz) == (t + tz) \div 24

LocalHour(t, tz) == (t + tz) % 24

\* Date.prototype.getDay: 1970-01-01 was a Thursday
GetDay(t, tz) == (LocalDay(t, tz) + 4) % 7

GetDate(t, tz) == CivilFromDays(LocalDay(t, tz)).d

\* Date.prototype.setDate(n): day n of the local month, local time of day kept;
\* n <= 0 counts back from the first of the month
SetDate(t, n, tz) ==
    With(CivilFromDays(LocalDay(t, tz)), LAMBDA c :
        24 * (DaysFromCivil([y |-> c.y, m |-> c.m, d |-> 1]) + n - 1)
            + LocalHour(t, tz) - tz)

\* toISOString().split('T')[0]: the date in UTC
ToISODate(t) == FormatDate(t \div 24)

getWeekStart(dateString, tz) ==
    With(NewDate(dateString, tz), LAMBDA date :
    With(GetDay(date, tz), LAMBDA day :
    With(GetDate(date, tz) - day, LAMBDA diff :
    With(SetDate(date, diff, tz), LAMBDA sunday :
        ToISODate(sunday)))))

(***************************************************************************)
(* The aggregator effect, useEffect(..., [selectedPropositions])           *)
(*                                                                         *)
(* A movement is [dataHora, descricaoTipo, descricaoSituacao]; a           *)
(* proposition is [codigo, titulo, andamentos, autores, statusProposicao]. *)
(* An absent or empty text is "", a null status record has present FALSE.  *)
(***************************************************************************)
Min(a, b) == IF a < b THEN a ELSE b

\* a || b || c on texts: the first that is not empty
FirstText(a, b, c) == IF a # "" THEN a ELSE IF b # "" THEN b ELSE c

\* the place of x in a list sorted by (a, b) => b.key - a.key: before the first
\* entry with a smaller key, so that equal keys keep their order
InsertDesc(sorted, x) ==
    With({i \in 1..Len(sorted) : sorted[i].key < x.key}, LAMBDA after :
    With(IF after = {} THEN Len(sorted) + 1
         ELSE CHOOSE i \in after : \A j \in after : i <= j, LAMBDA at :
        SubSeq(sorted, 1, at - 1) \o <<x>> \o SubSeq(sorted, at, Len(sorted))))

\* the comparator written the other way round, (a, b) => a.key - b.key
InsertAsc(sorted, x) ==
    With({i \in 1..Len(sorted) : sorted[i].key > x.key}, LAMBDA after :
    With(IF after = {} THEN Len(sorted) + 1
         ELSE CHOOSE i \in after : \A j \in after : i <= j, LAMBDA at :
        SubSeq(sorted, 1, at - 1) \o <<x>> \o SubSeq(sorted, at, Len(sorted))))

Place(sorted, x) == InsertDesc(sorted, x)

\* the first n items, sorted
RECURSIVE SortDescUpTo(_, _)
SortDescUpTo(items, n) ==
    IF n = 0 THEN <<>>
    ELSE With(SortDescUpTo(items, n - 1), LAMBDA sorted :
         With(items[n], LAMBDA x : Place(sorted, x)))

\* Array.prototype.sort((a, b) => b.key - a.key): stable, larger keys first
SortDesc(items) == SortDescUpTo(items, Len(items))

Values(items) == Tuple([i \in 1..Len(items) |-> items[i].val])

\* prop.andamentos.map(mov => ({data, descricao, codigo, titulo}))
MovementEntries(prop) ==
    Tuple([m \in 1..Len(prop.andamentos) |->
        [data      |-> DateOnly(prop.andamentos[m].dataHora),
         descricao |-> FirstText(prop.andamentos[m].descricaoTipo,
                                 prop.andamentos[m].descricaoSituacao,
                                 "Andamento nao especificado"),
         codigo    |-> prop.codigo,
         titulo    |-> prop.titulo]])

\* the entries of the first n propositions, in order
RECURSIVE MovementsUpTo(_, _)
MovementsUpTo(list, n) ==
    IF n = 0 THEN <<>>
    ELSE MovementsUpTo(list, n - 1) \o With(list[n], LAMBDA prop : MovementEntries(prop))

\* selectedPropositions.flatMap(...)
AllMovements(list) == MovementsUpTo(list, Len(list))

\* the sort key of an entry: new Date(entry.data)
ByDate(all) ==
    Tuple([i \in 1..Len(all) |-> [key |-> ParseDateOnly(all[i].data), val |-> all[i]]])

\* allMovements.sort((a, b) => new Date(b.data) - new Date(a.data))
SortedMovements(list) ==
    With(AllMovements(list), LAMBDA all :
    With(ByDate(all), LAMBDA items : Values(SortDesc(items))))

LatestLimit == 10

\* a feed that keeps one entry too many
SliceOneMore(sorted) == SubSeq(sorted, 1, Min(LatestLimit + 1, Len(sorted)))

\* sortedMovements.slice(0, 10)
SliceLatest(sorted) == SubSeq(sorted, 1, Min(LatestLimit, Len(sorted)))

LatestMovementsOf(list) ==
    With(SortedMovements(list), LAMBDA sorted : SliceLatest(sorted))

\* the ranking: one entry per proposition, most movements first
PropositionsByChangesOf(list) ==
    With(Tuple([i \in 1..Len(list) |->
            [key |-> Len(list[i].andamentos),
             val |-> [codigo     |-> list[i].codigo,
                      titulo     |-> list[i].titulo,
                      numChanges |-> Len(list[i].andamentos)]]]),
         LAMBDA items : Values(SortDesc(items)))

\* `Label: ${text}` when the field is there, '' otherwise
Labelled(label, present, text) == IF present THEN <<label, text>> ELSE <<>>

CurrentStatusOf(list) ==
    [i \in 1..Len(list) |->
        With(list[i].statusProposicao, LAMBDA status :
            [codigo     |-> list[i].codigo,
             titulo     |-> list[i].titulo,
             situacao   |-> IF status.present
                            THEN FirstText(status.descricaoSituacao,
                                           status.nomeSituacao, "Nao informado")
                            ELSE "Nao informado",
             despacho   |-> Labelled("Despacho: ",
                                     status.present /\ status.despacho # "",
                                     status.despacho),
             dataStatus |-> Labelled("Data: ",
                                     status.present /\ status.hasDataHora,
                                     DateOnly(status.dataHora)),
             orgao      |-> Labelled("Orgao: ",
                                     status.present /\ status.nomeOrgao # "",
                                     status.nomeOrgao)])]

\* the pairs (proposition, movement) of a list
MovementsIn(list) ==
    UNION {{<<p, m>> : m \in 1..Len(list[p].andamentos)} : p \in 1..Len(list)}

\* weekStart of every movement: getWeekStart(mov.dataHora)
WeekStarts(list, tz) ==
    Table([pm \in MovementsIn(list) |->
              getWeekStart(list[pm[1]].andamentos[pm[2]].dataHora, tz)])

\* allDates
AllDates(starts) == {starts[pm] : pm \in DOMAIN starts}

\* weeklyCounts[weekStart][codigo] after the two forEach loops: one counter per
\* week start and code string, incremented for every movement of every
\* proposition that carries that code
WeeklyCount(list, starts, weekStart, codigo) ==
    Cardinality({pm \in DOMAIN starts :
                    /\ list[pm[1]].codigo = codigo
                    /\ starts[pm] = weekStart})

\* the order of strings by UTF-16 code units: decided at the first position
\* where they differ, a proper prefix coming first
StrLess(a, b) ==
    With({k \in 1..Min(Len(a), Len(b)) : a[k] # b[k]}, LAMBDA differ :
        IF differ = {} THEN Len(a) < Len(b)
        ELSE With(CHOOSE k \in differ : \A j \in differ : k <= j, LAMBDA k :
                 CharCode(a[k]) < CharCode(b[k])))

\* Array.from(set).sort(): each string stands after the ones below it
SortStrings(set) ==
    Tuple([r \in 1..Cardinality(set) |->
              CHOOSE x \in set : Cardinality({y \in set : StrLess(y, x)}) = r - 1])

CodesOf(list) == {list[i].codigo : i \in 1..Len(list)}

\* chartData: per sorted date, { name: date, [prop.codigo]: count or 0 }
WeeklyMovementDataOf(list, tz) ==
    With(WeekStarts(list, tz), LAMBDA starts :
    With(AllDates(starts), LAMBDA allDates :
    With(SortStrings(allDates), LAMBDA sortedDates :
        [d \in 1..Len(sortedDates) |->
            [name   |-> sortedDates[d],
             counts |-> [c \in CodesOf(list) |->
                            WeeklyCount(list, starts, sortedDates[d], c)]]])))

\* what one run of the effect leaves in the four view models
Aggregate(list, tz) ==
    IF Len(list) = 0
    THEN [latest |-> <<>>, byChanges |-> <<>>, status |-> <<>>, weekly |-> <<>>]
    ELSE [latest    |-> LatestMovementsOf(list),
          byChanges |-> PropositionsByChangesOf(list),
          status    |-> CurrentStatusOf(list),
          weekly    |-> WeeklyMovementDataOf(list, tz)]

(***************************************************************************)
(* The remote API, as the handler sees it.  Every lookup either fails      *)
(* (fetch rejects: "network"; a response that is not ok: "http"), or       *)
(* answers with data ("found"), or answers without any ("empty": no match  *)
(* for the identifier lookup, no dados for the detail lookup).  What it    *)
(* answers with is fixed per proposition; when and how it answers is not.  *)
(***************************************************************************)
Failures == {"network", "http"}

IdAnswers == {"found", "empty"} \cup Failures

DetailsAnswers == {"found", "empty"} \cup Failures

MovementsAnswers == {"found"} \cup Failures

NullId == 0

\* data.dados[0].id
ApiId(parsed) == 10000 * parsed.numero + parsed.ano

Stamp(date, hasTime, hour) == [date |-> date, hasTime |-> hasTime, hour |-> hour]

\* 2024-01-07 is day 19729, a Sunday
Epoch2024 == DaysFromCivil([y |-> 2024, m |-> 1, d |-> 1])

Movement(stamp, tipo, situacao) ==
    [dataHora |-> stamp, descricaoTipo |-> tipo, descricaoSituacao |-> situacao]

NullStatus ==
    [present |-> FALSE, descricaoSituacao |-> "", nomeSituacao |-> "", despacho |-> "",
     hasDataHora |-> FALSE, dataHora |-> Stamp(0, FALSE, 0), nomeOrgao |-> ""]

NullDetails ==
    [present |-> FALSE, ementa |-> "", nome |-> "", statusProposicao |-> NullStatus]

\* data.dados of /proposicoes/{id}
ApiDetails(id) ==
    IF id % 2 = 0
    THEN [present |-> TRUE, ementa |-> "", nome |-> "", statusProposicao |-> NullStatus]
    ELSE [present |-> TRUE, ementa |-> "Ementa", nome |-> "Nome",
          statusProposicao |->
              [present |-> TRUE, descricaoSituacao |-> "",
               nomeSituacao |-> "Pronta para Pauta", despacho |-> "Ao Plenario",
               hasDataHora |-> TRUE, dataHora |-> Stamp(Epoch2024 + 9, TRUE, 12),
               nomeOrgao |-> ""]]

\* data.dados of /proposicoes/{id}/tramitacoes
ApiMovements(id) ==
    IF id % 2 = 0
    THEN <<Movement(Stamp(Epoch2024 + 6, TRUE, 0), "", "")>>
    ELSE <<Movement(Stamp(Epoch2024 + 9, TRUE, 12), "Apresentacao", ""),
           Movement(Stamp(Epoch2024 + 5, TRUE, 23), "", "Aguardando Parecer")>>

\* error.message of what fetchPropositionId, fetchPropositionDetails and
\* fetchPropositionMovements throw, cut to what the three have in common:
\* "Erro de rede: ..." when fetch rejects, "Erro ao buscar ... da proposicao: ..."
\* when the response is not ok
FetchErrorMessage(failure) ==
    IF failure = "network" THEN "Erro de rede" ELSE "Erro ao buscar"

(***************************************************************************)
(* handleProcessPropositions                                               *)
(***************************************************************************)
\* text.split(',')
RECURSIVE Split(_)
Split(text) ==
    LET commas == {i \in 1..Len(text) : text[i] = ","}
    IN  IF commas = {} THEN <<text>>
        ELSE LET c == CHOOSE i \in commas : \A j \in commas : i <= j
             IN  <<SubSeq(text, 1, c - 1)>> \o Split(SubSeq(text, c + 1, Len(text)))

\* String.prototype.trim
RECURSIVE Trim(_)
Trim(str) ==
    IF str = <<>> THEN str
    ELSE IF IsSpace(str[1]) THEN Trim(Tail(str))
    ELSE IF IsSpace(str[Len(str)]) THEN Trim(SubSeq(str, 1, Len(str) - 1))
    ELSE str

\* propositionCodesInput.split(',').map(code => code.trim()).filter(code => code !== '')
SplitCodes(text) ==
    LET parts == Split(text)
    IN  SelectSeq([i \in 1..Len(parts) |-> Trim(parts[i])], LAMBDA code : code # <<>>)

\* the strings of errorMessage
NoMessage == [text |-> "", codes |-> <<>>]

GuidanceMessage ==
    [text |-> "Por favor, insira pelo menos um codigo de proposicao.", codes |-> <<>>]

UnresolvedMessage(notFoundCodes) ==
    [text  |-> "Nao foi possivel encontrar ou processar as seguintes proposicoes",
     codes |-> notFoundCodes]

NothingFoundMessage ==
    [text |-> "Nenhuma proposicao encontrada para os codigos informados.", codes |-> <<>>]

\* an entry of notFoundCodes: code, or `${code} (Erro: ${error.message})`
NotFoundEntry(code, message) == [code |-> code, erro |-> message]

\* the locals of one activation of the handler and where it stands
IdleRun ==
    [pc |-> "idle", codes |-> <<>>, i |-> 0, fetchedPropositions |-> <<>>,
     notFoundCodes |-> <<>>, propositionId |-> NullId, details |-> NullDetails,
     reentrant |-> FALSE]

(***************************************************************************)
(* Bounds and the user's inputs                                            *)
(***************************************************************************)
MaxCodes == 3     \* comma-separated entries in one submitted text

MaxRuns == 2      \* activations of the handler that may exist at once

CodeA == <<"P", "L", " ", "1", "/", "2", "0", "2", "3">>

CodeB == <<"p", "e", "c", "2", "/", "2", "0", "2", "2">>

CodeBad == <<"x", "9">>

Tokens == {CodeA, CodeB, CodeBad}

\* texts without any code: all whitespace, or commas and whitespace
BlankTexts == {<<" ">>, <<",">>, <<" ", ",", " ", ",">>}

\* a text whose entries need trimming and filtering
PaddedText == <<" ">> \o CodeA \o <<" ", ",", ",", " ">> \o CodeBad

RECURSIVE JoinComma(_)
JoinComma(tokens) ==
    IF Len(tokens) = 0 THEN <<>>
    ELSE IF Len(tokens) = 1 THEN tokens[1]
    ELSE tokens[1] \o <<",">> \o JoinComma(Tail(tokens))

InputTexts ==
    {JoinComma(t) : t \in UNION {[1..n -> Tokens] : n \in 0..MaxCodes}}
        \cup BlankTexts \cup {PaddedText}

\* the codes of each text the user may submit
CodesIn == [text \in InputTexts |-> SplitCodes(text)]

\* the machine's offset from UTC, in hours
TimeZones == {0 - 3, 0, 2}

\* the offset of the session that submits batches
SessionZone == 0 - 3

Runs == 1..MaxRuns

AwaitPcs == {"awaitId", "awaitDetails", "awaitMovements"}

\* a stretch of the handler between two awaits is running: nothing else can
Busy == \E r \in Runs : runs[r].pc \in {"loop", "setMessage", "clearLoading"}

Idle == \A r \in Runs : runs[r].pc = "idle"

\* a button that is never disabled
SubmitAlwaysEnabled == TRUE

\* <button onClick={handleProcessPropositions} disabled={isLoading}>
SubmitEnabled == ~isLoading

\* a handler that does not clear the list when it starts
KeepList(list) == list

\* line 228: setSelectedPropositions([])
ResetList(list) == <<>>

\* a handler that never takes the early return
NoCodesNever(codes) == FALSE

\* line 233: if (codes.length === 0)
NoCodes(codes) == Len(codes) = 0

Request(r, kind, arg) == [run |-> r, kind |-> kind, index |-> runs[r].i, arg |-> arg]

(***************************************************************************)
(* The user sets the textarea to text and clicks the button: lines 226-237 *)
(***************************************************************************)
Submit(text) ==
    /\ ~Busy
    /\ ~effectPending
    /\ SubmitEnabled
    /\ \E r \in Runs :
        /\ runs[r].pc = "idle"
        /\ \A q \in Runs : runs[q].pc = "idle" => r <= q
        /\ \E codes \in {CodesIn[text]} :
               /\ propositionCodesInput' = text
               /\ selectedPropositions' = ResetList(selectedPropositions)
               /\ weeklyMovementData' = <<>>
               /\ currentStatusData' = <<>>
               /\ effectPending' = TRUE
               /\ submitted' = TRUE
               /\ outcomes' = [outcomes EXCEPT ![r] = <<>>]
               /\ installs' = [installs EXCEPT ![r] = 0]
               /\ IF NoCodes(codes)
                  THEN /\ errorMessage' = GuidanceMessage
                       /\ isLoading' = FALSE
                       /\ runs' = runs
                  ELSE /\ errorMessage' = NoMessage
                       /\ isLoading' = TRUE
                       /\ runs' = [runs EXCEPT ![r] =
                              [IdleRun EXCEPT !.pc = "loop", !.codes = codes, !.i = 1,
                                   !.reentrant = Len(selectedPropositions) > 0]]
    /\ UNCHANGED <<latestMovements, propositionsByChanges, requests, timeZone, callState>>

\* where the loop goes after the catch block
AbortAfterCatch(i, n) == n + 1

NextAfterCatch(i, n) == i + 1

\* the catch block, lines 270-274
Caught(run, message) ==
    [run EXCEPT !.notFoundCodes = Append(@, NotFoundEntry(run.codes[run.i], message)),
                !.i = NextAfterCatch(run.i, Len(run.codes)),
                !.pc = "loop"]

\* notFoundCodes.push(code), then the next code
NotFound(run) ==
    [run EXCEPT !.notFoundCodes = Append(@, NotFoundEntry(run.codes[run.i], "")),
                !.i = @ + 1,
                !.pc = "loop"]

\* lines 243-247: the code does not parse
ParseFails(r) ==
    /\ runs[r].pc = "loop"
    /\ runs[r].i <= Len(runs[r].codes)
    /\ ~parsePropositionCode(runs[r].codes[runs[r].i]).matched
    /\ runs' = [runs EXCEPT ![r] = NotFound(runs[r])]
    /\ outcomes' = [outcomes EXCEPT ![r] = Append(@, "parse_failure")]
    /\ UNCHANGED <<reactState, requests, installs, submitted, timeZone, callState>>

\* lines 243-250: the code parses, fetchPropositionId is called and awaited
CallFetchId(r) ==
    /\ runs[r].pc = "loop"
    /\ runs[r].i <= Len(runs[r].codes)
    /\ \E parsedCode \in {parsePropositionCode(runs[r].codes[runs[r].i])} :
           /\ parsedCode.matched
           /\ requests' = requests \cup {Request(r, "id", ApiId(parsedCode))}
    /\ runs' = [runs EXCEPT ![r].pc = "awaitId", ![r].propositionId = NullId,
                            ![r].details = NullDetails]
    /\ UNCHANGED <<reactState, outcomes, installs, submitted, timeZone, callState>>

\* a handler that does not test the identifier
AnyIdGoesOn(id) == TRUE

\* if (propositionId)
IdIsTruthy(id) == id # NullId

\* fetchPropositionId settles: lines 250-253 and 267-274
IdSettles(r, answer) ==
    /\ ~Busy
    /\ ~effectPending
    /\ runs[r].pc = "awaitId"
    /\ \E req \in requests :
        /\ req.run = r /\ req.kind = "id"
        /\ LET propositionId == IF answer = "found" THEN req.arg ELSE NullId
           IN  IF answer \in Failures
               THEN /\ runs' = [runs EXCEPT ![r] = Caught(@, FetchErrorMessage(answer))]
                    /\ requests' = requests \ {req}
                    /\ outcomes' = [outcomes EXCEPT ![r] = Append(@, "failure")]
               ELSE IF IdIsTruthy(propositionId)
               THEN /\ runs' = [runs EXCEPT ![r].propositionId = propositionId,
                                            ![r].pc = "awaitDetails"]
                    /\ requests' = (requests \ {req})
                                      \cup {Request(r, "details", propositionId)}
                    /\ outcomes' = outcomes
               ELSE /\ runs' = [runs EXCEPT ![r] = NotFound(@)]
                    /\ requests' = requests \ {req}
                    /\ outcomes' = [outcomes EXCEPT ![r] = Append(@, "not_found")]
    /\ UNCHANGED <<reactState, installs, submitted, timeZone, callState>>

\* fetchPropositionDetails settles: lines 253-254 and 270-274
DetailsSettle(r, answer) ==
    /\ ~Busy
    /\ ~effectPending
    /\ runs[r].pc = "awaitDetails"
    /\ \E req \in requests :
        /\ req.run = r /\ req.kind = "details"
        /\ IF answer \in Failures
           THEN /\ runs' = [runs EXCEPT ![r] = Caught(@, FetchErrorMessage(answer))]
                /\ requests' = requests \ {req}
                /\ outcomes' = [outcomes EXCEPT ![r] = Append(@, "failure")]
           ELSE /\ runs' = [runs EXCEPT
                              ![r].details = IF answer = "found" THEN ApiDetails(req.arg)
                                             ELSE NullDetails,
                              ![r].pc = "awaitMovements"]
                /\ requests' = (requests \ {req})
                                  \cup {Request(r, "movements", runs[r].propositionId)}
                /\ outcomes' = outcomes
    /\ UNCHANGED <<reactState, installs, submitted, timeZone, callState>>

\* details.ementa || details.nome || 'Título não disponível'
Proposition(code, details, movements) ==
    [codigo           |-> code,
     titulo           |-> FirstText(details.ementa, details.nome, "Titulo nao disponivel"),
     andamentos       |-> movements,
     autores          |-> <<>>,
     statusProposicao |-> details.statusProposicao]

\* fetchPropositionMovements settles: lines 254-266 and 270-274
MovementsSettle(r, answer) ==
    /\ ~Busy
    /\ ~effectPending
    /\ runs[r].pc = "awaitMovements"
    /\ \E req \in requests :
        /\ req.run = r /\ req.kind = "movements"
        /\ requests' = requests \ {req}
        /\ IF answer \in Failures
           THEN /\ runs' = [runs EXCEPT ![r] = Caught(@, FetchErrorMessage(answer))]
                /\ outcomes' = [outcomes EXCEPT ![r] = Append(@, "failure")]
           ELSE IF runs[r].details.present
           THEN /\ runs' = [runs EXCEPT
                              ![r].fetchedPropositions =
                                  Append(@, Proposition(runs[r].codes[runs[r].i],
                                                        runs[r].details,
                                                        ApiMovements(req.arg))),
                              ![r].i = @ + 1,
                              ![r].pc = "loop"]
                /\ outcomes' = [outcomes EXCEPT ![r] = Append(@, "resolved")]
           ELSE /\ runs' = [runs EXCEPT ![r] = NotFound(@)]
                /\ outcomes' = [outcomes EXCEPT ![r] = Append(@, "no_details")]
    /\ UNCHANGED <<reactState, installs, submitted, timeZone, callState>>

\* a loop that never runs out of codes
LoopNeverDone(run) == FALSE

\* for (const code of codes): the iterator is exhausted
LoopDone(run) == run.i > Len(run.codes)

\* line 277: setSelectedPropositions(fetchedPropositions)
Install(r) ==
    /\ runs[r].pc = "loop"
    /\ LoopDone(runs[r])
    /\ selectedPropositions' = runs[r].fetchedPropositions
    /\ effectPending' = TRUE
    /\ installs' = [installs EXCEPT ![r] = @ + 1]
    /\ runs' = [runs EXCEPT ![r].pc = "setMessage"]
    /\ UNCHANGED <<propositionCodesInput, latestMovements, propositionsByChanges,
                   currentStatusData, errorMessage, isLoading, weeklyMovementData,
                   requests, outcomes, submitted, timeZone, callState>>

\* lines 279-283
FinalMessage(run, current) ==
    IF Len(run.notFoundCodes) > 0 THEN UnresolvedMessage(run.notFoundCodes)
    ELSE IF Len(run.fetchedPropositions) = 0 THEN NothingFoundMessage
    ELSE current

SetMessage(r) ==
    /\ runs[r].pc = "setMessage"
    /\ errorMessage' = FinalMessage(runs[r], errorMessage)
    /\ runs' = [runs EXCEPT ![r].pc = "clearLoading"]
    /\ UNCHANGED <<propositionCodesInput, selectedPropositions, latestMovements,
                   propositionsByChanges, currentStatusData, isLoading,
                   weeklyMovementData, effectPending, requests, outcomes, installs,
                   submitted, timeZone, callState>>

\* line 285: setIsLoading(false), and the handler returns
ClearLoading(r) ==
    /\ runs[r].pc = "clearLoading"
    /\ isLoading' = FALSE
    /\ runs' = [runs EXCEPT ![r] = IdleRun]
    /\ outcomes' = [outcomes EXCEPT ![r] = <<>>]
    /\ installs' = [installs EXCEPT ![r] = 0]
    /\ UNCHANGED <<propositionCodesInput, selectedPropositions, latestMovements,
                   propositionsByChanges, currentStatusData, errorMessage,
                   weeklyMovementData, effectPending, requests, submitted, timeZone,
                   callState>>

\* the effect of lines 128-208 runs for the committed list
AggregatorEffect ==
    /\ effectPending
    /\ ~Busy
    /\ \E views \in {Aggregate(selectedPropositions, timeZone)} :
           /\ latestMovements' = views.latest
           /\ propositionsByChanges' = views.byChanges
           /\ currentStatusData' = views.status
           /\ weeklyMovementData' = views.weekly
    /\ effectPending' = FALSE
    /\ UNCHANGED <<propositionCodesInput, selectedPropositions, errorMessage, isLoading,
                   batchState, submitted, timeZone, callState>>

NoCall == <<>>

\* the component as mounted, but for the list, the effect and the zone
Mounted ==
    /\ propositionCodesInput = <<>>
    /\ latestMovements = <<>>
    /\ propositionsByChanges = <<>>
    /\ currentStatusData = <<>>
    /\ errorMessage = NoMessage
    /\ isLoading = FALSE
    /\ weeklyMovementData = <<>>
    /\ runs = [r \in Runs |-> IdleRun]
    /\ requests = {}
    /\ outcomes = [r \in Runs |-> <<>>]
    /\ installs = [r \in Runs |-> 0]
    /\ submitted = FALSE

Init ==
    /\ Mounted
    /\ selectedPropositions = <<>>
    /\ effectPending = TRUE
    /\ timeZone = SessionZone
    /\ callArg = NoCall
    /\ callRet = NoCall

Next ==
    \/ \E text \in InputTexts : Submit(text)
    \/ \E r \in Runs : ParseFails(r)
    \/ \E r \in Runs : CallFetchId(r)
    \/ \E r \in Runs, answer \in IdAnswers : IdSettles(r, answer)
    \/ \E r \in Runs, answer \in DetailsAnswers : DetailsSettle(r, answer)
    \/ \E r \in Runs, answer \in MovementsAnswers : MovementsSettle(r, answer)
    \/ \E r \in Runs : Install(r)
    \/ \E r \in Runs : SetMessage(r)
    \/ \E r \in Runs : ClearLoading(r)
    \/ AggregatorEffect

Spec == Init /\ [][Next]_vars

(***************************************************************************)
(* Properties of a batch                                                   *)
(***************************************************************************)
\* the entries of seq at the positions where keep holds, in order
AtPositions(seq, keep) ==
    With(SelectSeq([i \in 1..Len(seq) |-> i], LAMBDA i : keep[i]), LAMBDA at :
        [k \in 1..Len(at) |-> seq[at[k]]])

\* what the API holds for a code, whatever happens to the other codes
Alone(code) ==
    With(ApiId(parsePropositionCode(code)), LAMBDA id :
        Proposition(code, ApiDetails(id), ApiMovements(id)))

\* run r has left the loop and installed its list
Installed(r) == runs[r].pc = "setMessage"

\* C1: when the loop of a batch is over and its list is installed, every code
\* of the batch has had its outcome; the installed list holds, in input order,
\* one proposition for each code whose parse and three lookups all succeeded,
\* each with the data the API holds for that code; and the unresolved list
\* holds, in input order, one entry for each other code and none for a code
\* that succeeded.
C1_EveryCodeProcessed ==
    \A r \in Runs :
        Installed(r) =>
            \E codes \in {runs[r].codes} :
                \E resolved \in {[i \in 1..Len(codes) |->
                                      i <= Len(outcomes[r]) /\ outcomes[r][i] = "resolved"]} :
                    /\ Len(outcomes[r]) = Len(codes)
                    /\ selectedPropositions = runs[r].fetchedPropositions
                    /\ [k \in 1..Len(selectedPropositions) |->
                           selectedPropositions[k].codigo] = AtPositions(codes, resolved)
                    /\ \A k \in 1..Len(selectedPropositions) :
                           selectedPropositions[k] = Alone(selectedPropositions[k].codigo)
                    /\ [k \in 1..Len(runs[r].notFoundCodes) |->
                           runs[r].notFoundCodes[k].code]
                         = AtPositions(codes, [i \in 1..Len(codes) |-> ~resolved[i]])

\* three codes, the second not found by the API, the others resolved
C1_Witness ==
    \E r \in Runs :
        /\ Installed(r)
        /\ outcomes[r] = <<"resolved", "not_found", "resolved">>
        /\ Len(selectedPropositions) = 2
        /\ Len(runs[r].notFoundCodes) = 1

\* the code a request was issued for
CodeOf(req) == runs[req.run].codes[req.index]

\* C2: at most one request is in flight; it belongs to the code the loop is at,
\* and that code parses; a detail or movement lookup carries the identifier
\* the identifier lookup of the same code returned, which is not null.
C2_SequentialProtocol ==
    /\ Cardinality(requests) <= 1
    /\ \A req \in requests :
        /\ req.index = runs[req.run].i
        /\ req.index \in 1..Len(runs[req.run].codes)
        /\ parsePropositionCode(CodeOf(req)).matched
        /\ req.kind = "id" => runs[req.run].pc = "awaitId"
        /\ req.kind = "details" => runs[req.run].pc = "awaitDetails"
        /\ req.kind = "movements" => runs[req.run].pc = "awaitMovements"
        /\ req.kind \in {"details", "movements"} =>
               /\ req.arg # NullId
               /\ req.arg = runs[req.run].propositionId
               /\ req.arg = ApiId(parsePropositionCode(CodeOf(req)))
    /\ \A r \in Runs :
        runs[r].pc \in AwaitPcs => \E req \in requests : req.run = r

\* the movement lookup of a second code is in flight, after a first code that
\* did not parse
C2_Witness ==
    \E req \in requests :
        /\ req.kind = "movements"
        /\ req.index = 2
        /\ outcomes[req.run] = <<"parse_failure">>

\* the codes of the text last submitted
SubmittedCodes == SplitCodes(propositionCodesInput)

AllUnparseable(codes) ==
    \A i \in 1..Len(codes) : ~parsePropositionCode(codes[i]).matched

\* no code of run r parses
Hopeless(r) == runs[r].pc # "idle" /\ AllUnparseable(runs[r].codes)

\* the batch of the text last submitted is over
Settled == submitted /\ Idle

\* C3, as stated: an empty, blank or entirely unparseable input ends with the
\* guidance message.
C3_AsStated ==
    Settled /\ AllUnparseable(SubmittedCodes) => errorMessage = GuidanceMessage

\* C3: an input without any code, or whose codes all fail to parse, issues no
\* request, ends with the loading flag false and the list empty; with no code
\* at all the message is the guidance message, while codes that all fail to
\* parse end with the message that lists every one of them as unresolved.
C3_ShortCircuit ==
    /\ \A r \in Runs :
           Hopeless(r) => requests = {} /\ runs[r].pc \notin AwaitPcs
                                       /\ runs[r].fetchedPropositions = <<>>
    /\ Settled /\ AllUnparseable(SubmittedCodes) =>
           /\ ~isLoading
           /\ selectedPropositions = <<>>
           /\ requests = {}
           /\ errorMessage =
                  IF SubmittedCodes = <<>> THEN GuidanceMessage
                  ELSE UnresolvedMessage([k \in 1..Len(SubmittedCodes) |->
                                             NotFoundEntry(SubmittedCodes[k], "")])

\* a batch of two codes that do not parse is over
C3_Witness ==
    /\ Settled
    /\ Len(SubmittedCodes) = 2
    /\ AllUnparseable(SubmittedCodes)
    /\ errorMessage # GuidanceMessage

\* a text of blanks and commas has been submitted
C3_BlankWitness ==
    /\ Settled
    /\ Len(propositionCodesInput) > 1
    /\ SubmittedCodes = <<>>
    /\ errorMessage = GuidanceMessage

\* run r holds codes and has not installed its list yet
InProgress(r) == runs[r].pc \in {"loop"} \cup AwaitPcs

ViewsEmpty ==
    /\ latestMovements = <<>>
    /\ propositionsByChanges = <<>>
    /\ currentStatusData = <<>>
    /\ weeklyMovementData = <<>>

\* line 331: the views are on screen
Displayed == ~isLoading /\ Len(selectedPropositions) > 0

\* C4: once a submission's resets and the effect they trigger have run, the
\* list and the four view models are empty, and for a batch that goes on to
\* process codes the message is empty too, until the batch installs its list
\* (a text without codes leaves the guidance message instead); and a view
\* model on screen is either empty or computed from the list on screen.
C4_ResetFirst ==
    /\ \A r \in Runs :
           InProgress(r) /\ ~effectPending =>
               /\ selectedPropositions = <<>>
               /\ ViewsEmpty
               /\ errorMessage = NoMessage
    /\ Settled /\ SubmittedCodes = <<>> /\ ~effectPending =>
           selectedPropositions = <<>> /\ ViewsEmpty
    /\ Displayed =>
           \E views \in {Aggregate(selectedPropositions, timeZone)} :
               /\ latestMovements \in {<<>>, views.latest}
               /\ propositionsByChanges \in {<<>>, views.byChanges}
               /\ currentStatusData \in {<<>>, views.status}
               /\ weeklyMovementData \in {<<>>, views.weekly}

\* a batch submitted over the results of an earlier one awaits a lookup, the
\* effect of its resets done
C4_Witness ==
    \E r \in Runs :
        /\ runs[r].reentrant
        /\ runs[r].pc \in AwaitPcs
        /\ ~effectPending
        /\ ViewsEmpty

\* C5: at most one execution of the handler is in progress, and while one is
\* the loading flag is set, which keeps the button disabled.
C5_OneBatch ==
    /\ Cardinality({r \in Runs : runs[r].pc # "idle"}) <= 1
    /\ \A r \in Runs : runs[r].pc # "idle" => isLoading
    /\ \A req \in requests : runs[req.run].pc # "idle"

\* a batch awaits a lookup for its second code
C5_Witness ==
    \E r \in Runs :
        /\ runs[r].pc \in AwaitPcs
        /\ runs[r].i = 2
        /\ isLoading

(***************************************************************************)
(* The helpers on their own: one call of a helper with an argument drawn   *)
(* from a bounded set, the component otherwise as mounted                  *)
(***************************************************************************)
\* the strings over an alphabet, up to a length
Strings(alphabet, n) == UNION {[1..k -> alphabet] : k \in 0..n}

Returned == callRet # NoCall

AtRest ==
    /\ Mounted
    /\ selectedPropositions = <<>>
    /\ effectPending = FALSE

MaxParseLen == 7      \* characters of an argument of parsePropositionCode

ParseAlphabet == {"p", "0", "7", "/"}

\* arguments with blanks, both cases, text around the code and long digit runs
ParseSamples ==
    {<<" ", "P", "L", " ", "1", "2", "3", "/", "2", "0", "2", "3">>,
     <<"x", "9", " ", "p", "e", "c", "4", "5", "/", "2", "0", "2", "2", "1", ",">>,
     <<"P", "l", " ", " ", "7", "/", "0", "0", "0", "0">>,
     <<"M", "P", "0", "/", "2", "0", "2", "4", " ">>,
     <<"P", "L", " ", "1", "/", "2", "0", "2">>,
     <<"P", "L", " ", "/", "2", "0", "2", "3">>,
     <<"1", "/", "2", "0", "2", "3">>,
     CodeA, CodeB, CodeBad}

ParseInputs == Strings(ParseAlphabet, MaxParseLen) \cup ParseSamples

InitParse ==
    /\ AtRest
    /\ timeZone = SessionZone
    /\ callArg \in ParseInputs
    /\ callRet = NoCall

CallParse ==
    /\ ~Returned
    /\ callRet' = <<parsePropositionCode(callArg)>>
    /\ UNCHANGED <<reactState, batchState, submitted, timeZone, callArg>>

SpecParse == InitParse /\ [][CallParse]_vars

MaxColorLen == 7      \* characters of an argument of getPropositionColor

ColorAlphabet == {"P", "z", "/"}

ColorInputs == Strings(ColorAlphabet, MaxColorLen) \cup Tokens

InitColor ==
    /\ AtRest
    /\ timeZone = SessionZone
    /\ callArg \in ColorInputs
    /\ callRet = NoCall

CallColor ==
    /\ ~Returned
    /\ callRet' = <<getPropositionColor(callArg)>>
    /\ UNCHANGED <<reactState, batchState, submitted, timeZone, callArg>>

SpecColor == InitColor /\ [][CallColor]_vars

MaxDays == 40         \* days into 2024 of a movement

WeekHours == {0, 3, 12, 21, 23}

\* dataHora values: a date alone, or a date and a time of day
WeekStamps ==
    {Stamp(Epoch2024 + d, FALSE, 0) : d \in (0 - 1)..MaxDays}
        \cup {Stamp(Epoch2024 + d, TRUE, h) : d \in (0 - 1)..MaxDays, h \in WeekHours}

InitWeek ==
    /\ AtRest
    /\ timeZone \in TimeZones
    /\ callArg \in WeekStamps
    /\ callRet = NoCall

CallWeek ==
    /\ ~Returned
    /\ callRet' = <<getWeekStart(callArg, timeZone)>>
    /\ UNCHANGED <<reactState, batchState, submitted, timeZone, callArg>>

SpecWeek == InitWeek /\ [][CallWeek]_vars

MaxMovements == 6     \* movements of one proposition

MaxPropositions == 2  \* propositions of a list

\* k movements of a proposition, their dates scattered over 17 days
History(k) ==
    [m \in 1..k |->
        Movement(Stamp(Epoch2024 + ((k + 5 * m) % 17), TRUE, (7 * m + k) % 24),
                 IF m % 2 = 0 THEN "Apresentacao" ELSE "",
                 IF m % 3 = 0 THEN "Aguardando Parecer" ELSE "")]

\* what the handler may have pushed for a code
Fetched ==
    {Proposition(code, ApiDetails(k), History(k)) :
        code \in {CodeA, CodeB}, k \in 0..MaxMovements}

\* the lists the handler may install, the same code twice included
FetchedLists == UNION {[1..n -> Fetched] : n \in 0..MaxPropositions}

InitAgg ==
    /\ Mounted
    /\ selectedPropositions \in FetchedLists
    /\ effectPending = TRUE
    /\ timeZone \in TimeZones
    /\ callArg = NoCall
    /\ callRet = NoCall

SpecAgg == InitAgg /\ [][AggregatorEffect]_vars

(***************************************************************************)
(* Properties of the view models                                           *)
(***************************************************************************)
\* the effect has run for the list in selectedPropositions
Aggregated == ~effectPending /\ \A r \in Runs : runs[r].pc = "idle"

\* the week start the code computes for movement m of proposition p
WeekOf(p, m) == getWeekStart(selectedPropositions[p].andamentos[m].dataHora, timeZone)

\* the movements of proposition p alone that fall in a week
OwnCount(p, weekStart) ==
    Cardinality({m \in 1..Len(selectedPropositions[p].andamentos) :
                    WeekOf(p, m) = weekStart})

\* C6, as stated: the weekly series of a non-empty list has one point per
\* distinct week start, in ascending order, and the value a point records for
\* a proposition is the number of that proposition's own movements in that week.
C6_AsStated ==
    Aggregated /\ Len(selectedPropositions) > 0 =>
        \E weekly \in {weeklyMovementData} :
            /\ {weekly[d].name : d \in 1..Len(weekly)}
                 = {WeekOf(pm[1], pm[2]) : pm \in MovementsIn(selectedPropositions)}
            /\ \A d, e \in 1..Len(weekly) :
                   d < e => StrLess(weekly[d].name, weekly[e].name)
            /\ \A d \in 1..Len(weekly), p \in 1..Len(selectedPropositions) :
                   weekly[d].counts[selectedPropositions[p].codigo]
                       = OwnCount(p, weekly[d].name)

\* the same code twice, one movement each, in the same week: the point of that
\* week records 2 for the code, each proposition having 1 movement
C6_Failure ==
    /\ Aggregated
    /\ selectedPropositions = <<Proposition(CodeA, ApiDetails(1), History(1)),
                                Proposition(CodeA, ApiDetails(1), History(1))>>
    /\ Len(weeklyMovementData) = 1
    /\ weeklyMovementData[1].counts[CodeA] = 2
    /\ OwnCount(1, weeklyMovementData[1].name) = 1
    /\ OwnCount(2, weeklyMovementData[1].name) = 1

\* how often x occurs in seq
Occurrences(seq, x) == Cardinality({i \in 1..Len(seq) : seq[i] = x})

\* C8: the latest-movements view holds min(10, total) entries, each the entry
\* of a movement of the list, no entry more often than the list has it, in
\* non-increasing order of date; and every movement whose date is later than
\* the date of some entry of the view is in the view itself.
C8_LatestMovements ==
    Aggregated =>
        \E latest \in {latestMovements} :
        \E all \in {AllMovements(selectedPropositions)} :
            /\ Len(latest) = Min(10, Len(all))
            /\ \A i, j \in 1..Len(latest) :
                   i < j => ~StrLess(latest[i].data, latest[j].data)
            /\ \A i \in 1..Len(latest) :
                   Occurrences(latest, latest[i]) <= Occurrences(all, latest[i])
            /\ \A k \in 1..Len(all) :
                   (\E i \in 1..Len(latest) : StrLess(latest[i].data, all[k].data))
                       => Occurrences(latest, all[k]) = Occurrences(all, all[k])

\* twelve movements of two propositions, ten of them in the view, which spans
\* more than one date and leaves a movement out
C8_Witness ==
    /\ Aggregated
    /\ Len(AllMovements(selectedPropositions)) = 12
    /\ Len(latestMovements) = 10
    /\ latestMovements[1].data # latestMovements[10].data
    /\ \E k \in 1..12 :
           Occurrences(latestMovements, AllMovements(selectedPropositions)[k]) = 0

(***************************************************************************)
(* Properties of the helpers                                               *)
(***************************************************************************)
\* the day number a "YYYY-MM-DD" string spells
DayOf(str) == ParseDateOnly(str) \div 24

\* C7, as stated: for any timestamp and any time zone the week start is a
\* Sunday, not later than the movement's date and at most 6 days before it.
C7_AsStated ==
    Returned =>
        \E sunday \in {DayOf(callRet[1])} :
            /\ (sunday + 4) % 7 = 0
            /\ sunday <= callArg.date
            /\ callArg.date - sunday <= 6

\* "2024-01-07T21:00" (a Sunday evening) on a machine at UTC-3 gives
\* "2024-01-08", a Monday after the movement
C7_Failure ==
    /\ Returned
    /\ timeZone = 0 - 3
    /\ callArg = Stamp(DaysFromCivil([y |-> 2024, m |-> 1, d |-> 7]), TRUE, 21)
    /\ callRet[1] = <<"2", "0", "2", "4", "-", "0", "1", "-", "0", "8">>

\* 31 * h + c modulo 2^32, h an unsigned pair of 16-bit halves
WrapStep(h, c) ==
    With(31 * h.lo + c, LAMBDA lo :
        [hi |-> (31 * h.hi + (lo \div Half)) % Half, lo |-> lo % Half])

RECURSIVE WrapHashUpTo(_, _)
WrapHashUpTo(code, n) ==
    IF n = 0 THEN [hi |-> 0, lo |-> 0]
    ELSE With(WrapHashUpTo(code, n - 1), LAMBDA h : WrapStep(h, CharCode(code[n])))

\* the 32-bit pattern of the hash, all arithmetic wrapped
WrapHash(code) == WrapHashUpTo(code, Len(code))

TwoHex(byte) == <<HexChars[(byte \div 16) + 1], HexChars[(byte % 16) + 1]>>

\* C9: the colour is '#' and six hex digits, two per byte, for the three low
\* bytes, lowest first, of the hash folded in 32-bit wraparound arithmetic.
C9_Color ==
    Returned =>
        \E color \in {callRet[1]} :
        \E h \in {WrapHash(callArg)} :
            /\ Len(color) = 7
            /\ color[1] = "#"
            /\ \A i \in 2..7 : color[i] \in Range(HexChars)
            /\ color = <<"#">> \o TwoHex(h.lo % 256) \o TwoHex(h.lo \div 256)
                               \o TwoHex(h.hi % 256)

\* a string whose hash has left the 32-bit range and is negative, with a byte
\* below 16
C9_Witness ==
    /\ Returned
    /\ Len(callArg) = MaxColorLen
    /\ HashOf(callArg).hi < 0
    /\ WrapHash(callArg).lo % 256 < 16

\* the result of the call, when it is not null
Parsed == Returned /\ callRet[1].matched

UpperCaseLetters(sigla) ==
    /\ Len(sigla) > 0
    /\ \A i \in 1..Len(sigla) : IsUpper(sigla[i])

\* C10, as stated: a result that is not null has a non-empty uppercase type
\* and a number and a year strictly greater than 0.
C10_AsStated ==
    Parsed =>
        /\ UpperCaseLetters(callRet[1].siglaTipo)
        /\ callRet[1].numero > 0
        /\ callRet[1].ano > 0

\* C10: a result that is not null has a non-empty uppercase type, a number
\* that is 0 or more and a year from 0 to 9999.
C10_ParseResult ==
    Parsed =>
        /\ UpperCaseLetters(callRet[1].siglaTipo)
        /\ callRet[1].numero >= 0
        /\ callRet[1].ano \in 0..9999

\* a lowercase type is returned in uppercase, with number 0 and year 0
C10_Witness ==
    /\ Parsed
    /\ callArg = <<"p", "0", "/", "0", "0", "0", "0">>
    /\ callRet[1] = [matched |-> TRUE, siglaTipo |-> <<"P">>, numero |-> 0, ano |-> 0]

(***************************************************************************)
(* Termination of a batch.  The steps of the handler and the effect run    *)
(* as soon as the event loop reaches them, and every request in flight is  *)
(* eventually answered, one way or another; the user is free never to      *)
(* click again.                                                            *)
(***************************************************************************)
HandlerStep(r) ==
    ParseFails(r) \/ CallFetchId(r) \/ Install(r) \/ SetMessage(r) \/ ClearLoading(r)

RequestSettles(r) ==
    \/ \E answer \in IdAnswers : IdSettles(r, answer)
    \/ \E answer \in DetailsAnswers : DetailsSettle(r, answer)
    \/ \E answer \in MovementsAnswers : MovementsSettle(r, answer)

\* what goes on without the user: a step of the handler, an answer to a
\* request, the effect
Progress ==
    \/ \E r \in Runs : HandlerStep(r)
    \/ \E r \in Runs : RequestSettles(r)
    \/ AggregatorEffect

Fairness == WF_vars(Progress)

SpecLive == Spec /\ Fairness

\* every code of run r has had its outcome
AllProcessed(r) == Len(outcomes[r]) = Len(runs[r].codes)

\* where the list stands in a batch: untouched while codes remain, replaced
\* once by the accumulated list when the flag is about to be cleared
InstalledOnce ==
    \A r \in Runs :
        /\ installs[r] <= 1
        /\ installs[r] = 1 => AllProcessed(r) /\ isLoading
        /\ InProgress(r) => installs[r] = 0 /\ isLoading
        /\ runs[r].pc \in {"setMessage", "clearLoading"} =>
               /\ installs[r] = 1
               /\ selectedPropositions = runs[r].fetchedPropositions

\* the list changes only when a submission clears it or a batch whose codes
\* are all processed installs its accumulated list, the flag still set
ListWrittenBy ==
    selectedPropositions' # selectedPropositions =>
        \/ selectedPropositions' = <<>> /\ Idle
        \/ \E r \in Runs :
               /\ AllProcessed(r)
               /\ installs[r] = 0 /\ installs'[r] = 1
               /\ selectedPropositions' = runs[r].fetchedPropositions
               /\ isLoading /\ isLoading'

\* C11: under the fairness above every batch that has set the loading flag
\* reaches a state with the flag false and no activation left, whatever its
\* codes' outcomes; and the list is replaced by the accumulated list exactly
\* once per batch, after the last code is processed, before the flag is
\* cleared, and never while a code is unprocessed.
C11_Terminates ==
    /\ isLoading ~> (~isLoading /\ Idle)
    /\ []InstalledOnce
    /\ [][ListWrittenBy]_vars

\* a batch is over in which one code was resolved and another's lookup failed
C11_Witness ==
    /\ Settled
    /\ ~isLoading
    /\ Len(selectedPropositions) = 1
    /\ errorMessage.codes # <<>>
    /\ \E k \in 1..Len(errorMessage.codes) : errorMessage.codes[k].erro # ""

====
